---- MODULE Spec2Model ----
(***************************************************************************)
(* A model of MyrrixClient (src/myrrix.py): a stateless HTTP client.  Each *)
(* public method builds a path (and query parameters or a body), hands     *)
(* them to _make_request, which issues one HTTP request and decodes the    *)
(* response.  The server is the environment: it answers a request in       *)
(* flight with any status and any content of a bounded set.                *)
(*                                                                         *)
(* Strings are sequences of one-character strings, so that formatting,    *)
(* joining, splitting and parsing are computed and not assumed.  Python    *)
(* values are tagged records [kind, val].  Floats are fixed-point numbers  *)
(* with one fractional digit (val counts tenths): 3.0 is 30, -0.3 is -3.   *)
(* The model follows Python 2 semantics, which the code is written for     *)
(* (map returns a list, response content is a str).                        *)
(***************************************************************************)
EXTENDS Integers, Sequences, FiniteSets, TLC

VARIABLES host, port, ctor, pc, call, sent, resp, outcome, memo

vars == <<host, port, ctor, pc, call, sent, resp, outcome, memo>>

(***************************************************************************)
(* Bounds of the model.                                                    *)
(***************************************************************************)
\* longest list of identifiers, preferences or rows passed to an operation
MaxLen == 2
\* most rescorer parameters passed to a query
MaxRescorer == 2
\* most lines in the body the server answers an estimate with
MaxLines == 2

(***************************************************************************)
(* Python values.                                                          *)
(***************************************************************************)
PyNone == [kind |-> "None", val |-> 0]
PyInt(n) == [kind |-> "int", val |-> n]
PyFloat(tenths) == [kind |-> "float", val |-> tenths]
PyBool(b) == [kind |-> "bool", val |-> b]
PyStr(s) == [kind |-> "str", val |-> s]
PyList(items) == [kind |-> "list", val |-> items]
PyTuple(items) == [kind |-> "tuple", val |-> items]
\* an exception that was raised, by the name of its class
PyExc(name) == [kind |-> "exc", val |-> name]

Returned(v) == [kind |-> "return", val |-> v]
Raised(name) == [kind |-> "raise", val |-> PyExc(name)]
\* no value: nothing is in flight, nothing was returned
Nil == [kind |-> "nil", val |-> 0]

(***************************************************************************)
(* Strings.                                                                *)
(***************************************************************************)
Digits == <<"0", "1", "2", "3", "4", "5", "6", "7", "8", "9">>

RECURSIVE NatToStr(_)
NatToStr(n) ==
    IF n < 10 THEN <<Digits[n + 1]>>
    ELSE NatToStr(n \div 10) \o <<Digits[(n % 10) + 1]>>

\* '%d' % n and str(n) of an int n
IntToStr(n) == IF n < 0 THEN <<"-">> \o NatToStr(-n) ELSE NatToStr(n)

\* str(x) of a float x with one fractional digit: str(3.0) = '3.0'
FloatToStr(t) ==
    LET a == IF t < 0 THEN -t ELSE t
    IN  (IF t < 0 THEN <<"-">> ELSE <<>>)
        \o NatToStr(a \div 10) \o <<".">> \o <<Digits[(a % 10) + 1]>>

\* sep.join(parts)
RECURSIVE Join(_, _)
Join(parts, sep) ==
    IF parts = <<>> THEN <<>>
    ELSE IF Len(parts) = 1 THEN parts[1]
    ELSE parts[1] \o sep \o Join(Tail(parts), sep)

\* str(v): of a number, a string, a boolean and None, and of a list or a
\* tuple of these
RECURSIVE Str(_)
Str(v) ==
    CASE v.kind = "int" -> IntToStr(v.val)
      [] v.kind = "float" -> FloatToStr(v.val)
      [] v.kind = "str" -> v.val
      [] v.kind = "bool" -> IF v.val THEN <<"T", "r", "u", "e">>
                            ELSE <<"F", "a", "l", "s", "e">>
      [] v.kind = "None" -> <<"N", "o", "n", "e">>
      [] v.kind = "list" ->
            <<"[">> \o Join([i \in 1..Len(v.val) |-> Str(v.val[i])], <<",", " ">>)
                    \o <<"]">>
      [] v.kind = "tuple" ->
            <<"(">> \o Join([i \in 1..Len(v.val) |-> Str(v.val[i])], <<",", " ">>)
                    \o (IF Len(v.val) = 1 THEN <<",", ")">> ELSE <<")">>)

\* map(str, xs)
MapStr(xs) == [i \in 1..Len(xs) |-> Str(xs[i])]

\* s.split(sep) for a one-character separator
RECURSIVE SplitAcc(_, _, _)
SplitAcc(s, sep, cur) ==
    IF s = <<>> THEN <<cur>>
    ELSE IF Head(s) = sep THEN <<cur>> \o SplitAcc(Tail(s), sep, <<>>)
    ELSE SplitAcc(Tail(s), sep, Append(cur, Head(s)))

Split(s, sep) == SplitAcc(s, sep, <<>>)

Whitespace == {" ", "\n", "\t", "\r"}

RECURSIVE LStrip(_)
LStrip(s) == IF s # <<>> /\ Head(s) \in Whitespace THEN LStrip(Tail(s)) ELSE s

RECURSIVE RStrip(_)
RStrip(s) ==
    IF s # <<>> /\ s[Len(s)] \in Whitespace THEN RStrip(SubSeq(s, 1, Len(s) - 1))
    ELSE s

\* s.strip()
Strip(s) == RStrip(LStrip(s))

IsDigit(c) == \E i \in 1..10 : Digits[i] = c

DigitVal(c) == (CHOOSE i \in 1..10 : Digits[i] = c) - 1

RECURSIVE StrToNat(_)
StrToNat(s) ==
    IF s = <<>> THEN 0
    ELSE 10 * StrToNat(SubSeq(s, 1, Len(s) - 1)) + DigitVal(s[Len(s)])

AllDigits(s) == s # <<>> /\ \A i \in 1..Len(s) : IsDigit(s[i])

\* A decimal numeral [-]digits[.digit]: [ok, float, val]; val counts units
\* for an integer numeral and tenths for one with a fractional digit.
ParseNumeral(s) ==
    LET neg == s # <<>> /\ Head(s) = "-"
        u == IF neg THEN Tail(s) ELSE s
        parts == Split(u, ".")
        sign == IF neg THEN -1 ELSE 1
    IN  IF Len(parts) = 1 /\ AllDigits(parts[1])
        THEN [ok |-> TRUE, float |-> FALSE, val |-> sign * StrToNat(parts[1])]
        ELSE IF Len(parts) = 2 /\ AllDigits(parts[1]) /\ Len(parts[2]) = 1
                /\ AllDigits(parts[2])
        THEN [ok |-> TRUE, float |-> TRUE,
              val |-> sign * (10 * StrToNat(parts[1]) + StrToNat(parts[2]))]
        ELSE [ok |-> FALSE, float |-> FALSE, val |-> 0]

\* float(s): the value, or ValueError
Float(s) ==
    LET p == ParseNumeral(Strip(s))
    IN  IF ~p.ok THEN Raised("ValueError")
        ELSE Returned(PyFloat(IF p.float THEN p.val ELSE 10 * p.val))

(***************************************************************************)
(* resp.json(): a decoder for the JSON the server answers with: numbers    *)
(* and arrays, without whitespace.                                         *)
(***************************************************************************)
NumeralChars == {"-", "."} \cup {Digits[i] : i \in 1..10}

RECURSIVE NumeralLen(_)
NumeralLen(s) ==
    IF s # <<>> /\ Head(s) \in NumeralChars THEN 1 + NumeralLen(Tail(s)) ELSE 0

JsonFail == [ok |-> FALSE, val |-> PyNone, rest |-> <<>>]

RECURSIVE JsonValue(_), JsonItems(_, _)
\* one value at the start of s: [ok, val, rest]
JsonValue(s) ==
    IF s = <<>> THEN JsonFail
    ELSE IF Head(s) = "["
    THEN IF Len(s) >= 2 /\ s[2] = "]"
         THEN [ok |-> TRUE, val |-> PyList(<<>>), rest |-> SubSeq(s, 3, Len(s))]
         ELSE JsonItems(Tail(s), <<>>)
    ELSE LET n == NumeralLen(s)
             p == ParseNumeral(SubSeq(s, 1, n))
         IN  IF n = 0 \/ ~p.ok THEN JsonFail
             ELSE [ok |-> TRUE,
                   val |-> IF p.float THEN PyFloat(p.val) ELSE PyInt(p.val),
                   rest |-> SubSeq(s, n + 1, Len(s))]

\* the items of an array after its '[' or after a ',': [ok, val, rest]
JsonItems(s, acc) ==
    LET v == JsonValue(s)
    IN  IF ~v.ok \/ v.rest = <<>> THEN JsonFail
        ELSE IF Head(v.rest) = ","
        THEN JsonItems(Tail(v.rest), Append(acc, v.val))
        ELSE IF Head(v.rest) = "]"
        THEN [ok |-> TRUE, val |-> PyList(Append(acc, v.val)),
              rest |-> Tail(v.rest)]
        ELSE JsonFail

\* resp.json(): the decoded value, or ValueError
JsonDecode(s) ==
    LET v == JsonValue(s)
    IN  IF v.ok /\ v.rest = <<>> THEN Returned(v.val) ELSE Raised("ValueError")

(***************************************************************************)
(* Literal strings of the source.                                          *)
(***************************************************************************)
S_http == <<"h", "t", "t", "p", ":", "/", "/">>
S_pref == <<"p", "r", "e", "f", "/">>
S_tag_user == <<"t", "a", "g", "/", "u", "s", "e", "r", "/">>
S_tag_item == <<"t", "a", "g", "/", "i", "t", "e", "m", "/">>
S_ingest == <<"i", "n", "g", "e", "s", "t">>
S_recommend == <<"r", "e", "c", "o", "m", "m", "e", "n", "d", "/">>
S_recommendToMany ==
    <<"r", "e", "c", "o", "m", "m", "e", "n", "d", "T", "o", "M", "a", "n", "y", "/">>
S_recommendToAnonymous ==
    <<"r", "e", "c", "o", "m", "m", "e", "n", "d", "T", "o",
      "A", "n", "o", "n", "y", "m", "o", "u", "s", "/">>
S_similarity == <<"s", "i", "m", "i", "l", "a", "r", "i", "t", "y", "/">>
S_similarityToItem ==
    <<"s", "i", "m", "i", "l", "a", "r", "i", "t", "y", "T", "o", "I", "t", "e", "m", "/">>
S_estimate == <<"e", "s", "t", "i", "m", "a", "t", "e", "/">>
S_estimateForAnonymous ==
    <<"e", "s", "t", "i", "m", "a", "t", "e", "F", "o", "r",
      "A", "n", "o", "n", "y", "m", "o", "u", "s", "/">>
S_because == <<"b", "e", "c", "a", "u", "s", "e", "/">>
S_mostPopularItems ==
    <<"m", "o", "s", "t", "P", "o", "p", "u", "l", "a", "r", "I", "t", "e", "m", "s">>
S_refresh == <<"r", "e", "f", "r", "e", "s", "h">>
S_ready == <<"r", "e", "a", "d", "y">>
S_user_allIDs == <<"u", "s", "e", "r", "/", "a", "l", "l", "I", "D", "s">>
S_item_allIDs == <<"i", "t", "e", "m", "/", "a", "l", "l", "I", "D", "s">>

(***************************************************************************)
(* The request dispatcher.                                                 *)
(***************************************************************************)
\* 'http://%s:%d/%s' % (self.host, self.port, path)
Url(self, path) ==
    S_http \o self.host \o <<":">> \o IntToStr(self.port) \o <<"/">> \o path

\* The query the HTTP library puts on the wire for params=...: it walks
\* params.items(), which for a dict is every (key, value) and for a MultiDict
\* is every key with the FIRST of its values, and leaves out a value of None.
EncodeParams(params) ==
    LET first(i) == IF params.kind = "MultiDict" THEN params.val[i].vals[1]
                    ELSE params.val[i].vals
        kept == IF params.kind = "None" THEN <<>>
                ELSE SelectSeq([i \in 1..Len(params.val) |-> i],
                               LAMBDA i : first(i) # PyNone)
    IN  [j \in 1..Len(kept) |-> <<params.val[kept[j]].key, Str(first(kept[j]))>>]

AcceptJson == {<<"Accept", "application/json">>}

\* _make_request sending no headers
_make_request_no_headers(self, method, path, params, data) ==
    Returned([self |-> self,
              req |-> [method |-> method,
                       url |-> Url(self, path),
                       headers |-> {},
                       params |-> params,
                       query |-> EncodeParams(params),
                       body |-> PyNone]])

\* _make_request keeping the URL it built on the object, as self.host
_make_request_keeps_url(self, method, path, params, data) ==
    Returned([self |-> [self EXCEPT !.host = Url(self, path)],
              req |-> [method |-> method,
                       url |-> Url(self, path),
                       headers |-> AcceptJson,
                       params |-> params,
                       query |-> EncodeParams(params),
                       body |-> PyNone]])

\* _make_request up to the call of the HTTP library: the object after it and
\* the request that is sent.  data is accepted and not handed on.
_make_request(self, method, path, params, data) ==
    IF method \notin {"GET", "POST", "DELETE"} THEN Raised("AssertionError")
    ELSE Returned([self |-> self,
                   req |-> [method |-> method,
                            url |-> Url(self, path),
                            headers |-> AcceptJson,
                            params |-> params,
                            query |-> EncodeParams(params),
                            body |-> PyNone]])

\* resp.ok
Ok(r) == r.status < 400

\* map(float, resp.content.split('\n')), the content not stripped
lines_of_float_unstripped(content) ==
    LET lines == Split(content, "\n")
        fs == [i \in 1..Len(lines) |-> IF lines[i] = <<>> THEN Raised("ValueError")
                                       ELSE Float(lines[i])]
    IN  IF \E i \in 1..Len(fs) : fs[i].kind = "raise" THEN Raised("ValueError")
        ELSE Returned(PyList([i \in 1..Len(fs) |-> fs[i].val]))

\* map(float, resp.content.strip().split('\n'))
lines_of_float(content) ==
    LET lines == Split(Strip(content), "\n")
        fs == [i \in 1..Len(lines) |-> Float(lines[i])]
    IN  IF \E i \in 1..Len(fs) : fs[i].kind = "raise" THEN Raised("ValueError")
        ELSE Returned(PyList([i \in 1..Len(fs) |-> fs[i].val]))

\* _make_request from the response on: what it returns or raises
_make_request_result(r, float_lines) ==
    IF ~Ok(r) THEN Returned(PyNone)
    ELSE IF float_lines THEN lines_of_float(r.content)
    ELSE JsonDecode(r.content)

\* map(tuple, result)
map_tuple(result) ==
    IF result.kind # "list" THEN Raised("TypeError")
    ELSE IF \E i \in 1..Len(result.val) : result.val[i].kind \notin {"list", "tuple"}
    THEN Raised("TypeError")
    ELSE Returned(PyList([i \in 1..Len(result.val) |-> PyTuple(result.val[i].val)]))

(***************************************************************************)
(* The operations, up to the request each sends.  Each yields              *)
(* Returned([self, req]) or what it raises before any request is sent.     *)
(* kwargs is the sequence of <<name, value>> keyword arguments of a call.  *)
(***************************************************************************)
KwHas(kwargs, name) == \E i \in 1..Len(kwargs) : kwargs[i][1] = name

KwGet(kwargs, name) ==
    IF KwHas(kwargs, name)
    THEN kwargs[CHOOSE i \in 1..Len(kwargs) : kwargs[i][1] = name][2]
    ELSE PyNone

\* werkzeug's MultiDict(mapping): a list value is kept as the key's values
\* (an empty one drops the key), any other value becomes a one-element list
MultiDictOf(mapping) ==
    LET vals(i) == IF mapping[i].vals.kind \in {"list", "tuple"}
                   THEN mapping[i].vals.val ELSE <<mapping[i].vals>>
        kept == SelectSeq([i \in 1..Len(mapping) |-> i], LAMBDA i : vals(i) # <<>>)
    IN  [kind |-> "MultiDict",
         val |-> [j \in 1..Len(kept) |->
                    [key |-> mapping[kept[j]].key, vals |-> vals(kept[j])]]]

_recommend_params(kwargs) ==
    IF \E i \in 1..Len(kwargs) :
          kwargs[i][1] \notin {"how_many", "consider_known_items", "rescorer_params"}
    THEN Raised("TypeError")
    ELSE LET params == MultiDictOf(<<
                 [key |-> "howMany", vals |-> KwGet(kwargs, "how_many")],
                 [key |-> "considerKnownItems",
                  vals |-> KwGet(kwargs, "consider_known_items")]>>)
             rescorer_params == KwGet(kwargs, "rescorer_params")
         IN  IF rescorer_params # PyNone /\ rescorer_params.val # <<>>
             THEN Returned([params EXCEPT !.val =
                      Append(@, [key |-> "rescorerParams",
                                 vals |-> rescorer_params.val])])
             ELSE Returned(params)

\* if strength is not None: strength = str(strength)
strength_data(strength) ==
    IF strength # PyNone THEN PyStr(Str(strength)) ELSE PyNone

add_preference(self, user_id, item_id, strength) ==
    _make_request(self, "POST",
                  S_pref \o IntToStr(user_id.val) \o <<"/">> \o IntToStr(item_id.val),
                  PyNone, strength_data(strength))

remove_preference(self, user_id, item_id) ==
    _make_request(self, "DELETE",
                  S_pref \o IntToStr(user_id.val) \o <<"/">> \o IntToStr(item_id.val),
                  PyNone, PyNone)

set_user_tag(self, user_id, tag, strength) ==
    _make_request(self, "POST",
                  S_tag_user \o IntToStr(user_id.val) \o <<"/">> \o tag.val,
                  PyNone, strength_data(strength))

set_item_tag(self, item_id, tag, strength) ==
    _make_request(self, "POST",
                  S_tag_item \o IntToStr(item_id.val) \o <<"/">> \o tag.val,
                  PyNone, strength_data(strength))

\* '\n'.join(','.join(map(str, entry)) for entry in preferences)
ingest_data(preferences) ==
    PyStr(Join([i \in 1..Len(preferences.val) |->
                   Join(MapStr(preferences.val[i].val), <<",">>)], <<"\n">>))

ingest(self, preferences) ==
    _make_request(self, "POST", S_ingest, PyNone, ingest_data(preferences))

recommend(self, user_id, kwargs) ==
    LET params == _recommend_params(kwargs)
    IN  IF params.kind = "raise" THEN params
        ELSE _make_request(self, "GET", S_recommend \o IntToStr(user_id.val),
                           params.val, PyNone)

\* '/'.join(map(str, ids))
join_ids(ids) == Join(MapStr(ids.val), <<"/">>)

recommend_to_many(self, user_ids, kwargs) ==
    LET params == _recommend_params(kwargs)
    IN  IF params.kind = "raise" THEN params
        ELSE _make_request(self, "GET", S_recommendToMany \o join_ids(user_ids),
                           params.val, PyNone)

\* '/'.join('='.join(map(str, preference)) for preference in preferences):
\* map iterates each preference, which a bare number does not allow
preferences_string(preferences) ==
    IF \E i \in 1..Len(preferences.val) :
          preferences.val[i].kind \notin {"list", "tuple"}
    THEN Raised("TypeError")
    ELSE Returned(Join([i \in 1..Len(preferences.val) |->
                          Join(MapStr(preferences.val[i].val), <<"=">>)], <<"/">>))

recommend_to_anonymous(self, preferences, kwargs) ==
    LET params == _recommend_params(kwargs)
        str == preferences_string(preferences)
    IN  IF params.kind = "raise" THEN params
        ELSE IF str.kind = "raise" THEN str
        ELSE _make_request(self, "GET", S_recommendToAnonymous \o str.val,
                           params.val, PyNone)

\* item_ids = [item_ids], whatever item_ids is
as_list_always(item_ids) == PyList(<<item_ids>>)

\* if not isinstance(item_ids, list): item_ids = [item_ids]
as_list(item_ids) ==
    IF item_ids.kind # "list" THEN PyList(<<item_ids>>) ELSE item_ids

most_similar_items(self, item_ids, kwargs) ==
    LET params == _recommend_params(kwargs)
    IN  IF params.kind = "raise" THEN params
        ELSE _make_request(self, "GET", S_similarity \o join_ids(as_list(item_ids)),
                           params.val, PyNone)

similarity_to_item(self, to_item_id, item_ids) ==
    _make_request(self, "GET",
                  S_similarityToItem \o IntToStr(to_item_id.val) \o <<"/">>
                      \o join_ids(as_list(item_ids)),
                  PyNone, PyNone)

estimate(self, user_id, item_ids) ==
    _make_request(self, "GET",
                  S_estimate \o IntToStr(user_id.val) \o <<"/">>
                      \o join_ids(as_list(item_ids)),
                  PyNone, PyNone)

estimate_for_anonymous(self, to_item_id, preferences) ==
    LET str == preferences_string(preferences)
    IN  IF str.kind = "raise" THEN str
        ELSE _make_request(self, "GET",
                           S_estimateForAnonymous \o IntToStr(to_item_id.val)
                               \o <<"/">> \o str.val,
                           PyNone, PyNone)

because(self, user_id, item_id, how_many) ==
    _make_request(self, "GET",
                  S_because \o IntToStr(user_id.val) \o <<"/">> \o IntToStr(item_id.val),
                  [kind |-> "dict", val |-> <<[key |-> "howMany", vals |-> how_many]>>],
                  PyNone)

most_popular_items(self, kwargs) ==
    LET params == _recommend_params(kwargs)
    IN  IF params.kind = "raise" THEN params
        ELSE _make_request(self, "GET", S_mostPopularItems, params.val, PyNone)

refresh(self) == _make_request(self, "POST", S_refresh, PyNone, PyNone)

\* requests.head(url): no params, no headers of the client's own
is_ready(self) ==
    Returned([self |-> self,
              req |-> [method |-> "HEAD",
                       url |-> S_http \o self.host \o <<":">> \o IntToStr(self.port)
                               \o <<"/">> \o S_ready,
                       headers |-> {},
                       params |-> PyNone,
                       query |-> <<>>,
                       body |-> PyNone]])

get_all_user_ids(self) == _make_request(self, "GET", S_user_allIDs, PyNone, PyNone)

get_all_item_ids(self) == _make_request(self, "GET", S_item_allIDs, PyNone, PyNone)

\* What an operation does with the response: is_ready returns resp.ok; the
\* mutators drop _make_request's result; recommend, recommend_to_many,
\* recommend_to_anonymous, because and most_popular_items return
\* map(tuple, result); the other queries return the result as it is.
finish(op, r) ==
    IF op = "is_ready" THEN Returned(PyBool(Ok(r)))
    ELSE LET result == _make_request_result(r, op = "estimate")
         IN  IF result.kind = "raise" THEN result
             ELSE IF op \in {"add_preference", "remove_preference", "set_user_tag",
                             "set_item_tag", "ingest", "refresh"}
             THEN Returned(PyNone)
             ELSE IF op \in {"recommend", "recommend_to_many",
                             "recommend_to_anonymous", "because",
                             "most_popular_items"}
             THEN map_tuple(result.val)
             ELSE result

(***************************************************************************)
(* The arguments the callers pass and the responses the server gives.      *)
(***************************************************************************)
SeqsUpTo(S, n) == UNION {[1..k -> S] : k \in 0..n}

Hosts == {<<"m", "x">>}
Ports == {8080}
Ids == {PyInt(7), PyInt(42)}
Strengths == {PyNone, PyFloat(30), PyFloat(-5)}
Tags == {PyStr(<<"f">>)}
IdLists == {PyList(l) : l \in SeqsUpTo(Ids, MaxLen)}
\* an item or a list of items
ItemIdArgs == Ids \cup IdLists
\* anonymous preferences: an itemID or a tuple (itemID, strength)
Preferences == {PyInt(7), PyTuple(<<PyInt(42), PyFloat(30)>>)}
PreferenceLists == {PyList(l) : l \in SeqsUpTo(Preferences, MaxLen)}
\* rows (userID, itemID[, value]) to ingest
Rows == {PyTuple(<<PyInt(1), PyInt(2), PyFloat(30)>>), PyTuple(<<PyInt(4), PyInt(5)>>)}
RowLists == {PyList(l) : l \in SeqsUpTo(Rows, MaxLen)}
HowMany == {PyNone, PyInt(5)}
RescorerLists ==
    {PyList(l) : l \in SeqsUpTo({PyStr(<<"a">>), PyStr(<<"b">>)}, MaxRescorer)}

\* the keyword arguments given, of three that may be given; Nil marks one
\* that is not
KwargsOf(names, how_many, consider_known_items, rescorer_params) ==
    SelectSeq(<<<<names[1], how_many>>, <<names[2], consider_known_items>>,
                <<names[3], rescorer_params>>>>,
              LAMBDA kw : kw[2] # Nil)

\* the parameter names of _recommend_params
ParamNames == <<"how_many", "consider_known_items", "rescorer_params">>

KwargsSet ==
    {KwargsOf(ParamNames, h, Nil, r) : h \in {Nil, PyInt(5)}, r \in {Nil} \cup RescorerLists}
    \cup {KwargsOf(ParamNames, h, PyBool(TRUE), Nil) : h \in {Nil, PyInt(5)}}

Call(op, args, kwargs) == [op |-> op, args |-> args, kwargs |-> kwargs]

\* values one line of an estimate's answer holds
FloatVals == {5, 12, -3}

\* what the server writes for a float
FloatLine(t) == FloatToStr(t)

\* the body that lists vals, one per line
LinesBody(vals) == Join([i \in 1..Len(vals) |-> FloatLine(vals[i])], <<"\n">>)

LineContents ==
    {LinesBody(vals) \o nl : vals \in SeqsUpTo(FloatVals, MaxLines),
                             nl \in {<<>>, <<"\n">>}}

JsonContents ==
    { <<>>,
      <<"[", "]">>,
      <<"[", "7", ",", "4", "2", "]">>,
      <<"[", "[", "7", ",", "0", ".", "5", "]", "]">> }

\* the responses to a request of op: a success with one of the bodies the
\* endpoint answers with, or a failure
Responses(op) ==
    {[status |-> 200, content |-> c] :
        c \in IF op = "estimate" THEN LineContents \cup {<<"[", "]">>}
              ELSE IF op = "is_ready" THEN {<<>>}
              ELSE JsonContents}
    \cup {[status |-> st, content |-> <<>>] : st \in {404, 500}}

(***************************************************************************)
(* Reference invocations: the last one made is remembered, to compare a    *)
(* later invocation with it.                                               *)
(***************************************************************************)
ProbeCalls ==
    {Call(op, <<PyInt(7), x>>, <<>>) :
        op \in {"similarity_to_item", "estimate"},
        x \in {PyInt(7), PyList(<<PyInt(7)>>)}}
    \cup {Call("most_similar_items", <<x>>, <<>>) : x \in {PyInt(7), PyList(<<PyInt(7)>>)}}
    \cup {Call("recommend", <<PyInt(7)>>, <<>>)}

ProbeResponse(op) ==
    IF op = "estimate" THEN [status |-> 200, content |-> <<"0", ".", "5">>]
    ELSE IF op \in {"similarity_to_item", "most_similar_items"}
    THEN [status |-> 200, content |-> <<"[", "[", "7", ",", "0", ".", "5", "]", "]">>]
    ELSE [status |-> 404, content |-> <<>>]

IsProbe(c, r) == c \in ProbeCalls /\ r = ProbeResponse(c.op)

(***************************************************************************)
(* The state machine.  pc is the position of the one caller: "idle"        *)
(* between invocations, "waiting" inside the HTTP library's call, "done"   *)
(* when the operation has returned or raised.                              *)
(***************************************************************************)
Self == [host |-> host, port |-> port]

\* __init__(host, port)
Init ==
    /\ host \in Hosts
    /\ port \in Ports
    /\ ctor = [host |-> host, port |-> port]
    /\ pc = "idle"
    /\ call = Nil
    /\ sent = <<>>
    /\ resp = Nil
    /\ outcome = Nil
    /\ memo = Nil

\* An invocation c starts and runs up to its request: built is what the
\* operation yields up to there.
Start(c, built) ==
    /\ pc = "idle"
    /\ call' = c
    /\ resp' = Nil
    /\ IF built.kind = "raise"
       THEN /\ pc' = "done"
            /\ outcome' = built
            /\ UNCHANGED <<host, port, sent>>
       ELSE /\ pc' = "waiting"
            /\ outcome' = Nil
            /\ host' = built.val.self.host
            /\ port' = built.val.self.port
            /\ sent' = Append(sent, built.val.req)
    /\ UNCHANGED <<ctor, memo>>

AddPreference ==
    \E u \in Ids, i \in Ids, s \in Strengths :
        Start(Call("add_preference", <<u, i, s>>, <<>>), add_preference(Self, u, i, s))

RemovePreference ==
    \E u \in Ids, i \in Ids :
        Start(Call("remove_preference", <<u, i>>, <<>>), remove_preference(Self, u, i))

SetUserTag ==
    \E u \in Ids, t \in Tags, s \in Strengths :
        Start(Call("set_user_tag", <<u, t, s>>, <<>>), set_user_tag(Self, u, t, s))

SetItemTag ==
    \E i \in Ids, t \in Tags, s \in Strengths :
        Start(Call("set_item_tag", <<i, t, s>>, <<>>), set_item_tag(Self, i, t, s))

Ingest ==
    \E p \in RowLists : Start(Call("ingest", <<p>>, <<>>), ingest(Self, p))

Recommend ==
    \E u \in Ids, kw \in KwargsSet :
        Start(Call("recommend", <<u>>, kw), recommend(Self, u, kw))

RecommendToMany ==
    \E us \in IdLists, kw \in KwargsSet :
        Start(Call("recommend_to_many", <<us>>, kw), recommend_to_many(Self, us, kw))

RecommendToAnonymous ==
    \E p \in PreferenceLists, kw \in KwargsSet :
        Start(Call("recommend_to_anonymous", <<p>>, kw),
              recommend_to_anonymous(Self, p, kw))

MostSimilarItems ==
    \E is \in ItemIdArgs, kw \in KwargsSet :
        Start(Call("most_similar_items", <<is>>, kw), most_similar_items(Self, is, kw))

SimilarityToItem ==
    \E t \in Ids, is \in ItemIdArgs :
        Start(Call("similarity_to_item", <<t, is>>, <<>>), similarity_to_item(Self, t, is))

Estimate ==
    \E u \in Ids, is \in ItemIdArgs :
        Start(Call("estimate", <<u, is>>, <<>>), estimate(Self, u, is))

EstimateForAnonymous ==
    \E t \in Ids, p \in PreferenceLists :
        Start(Call("estimate_for_anonymous", <<t, p>>, <<>>),
              estimate_for_anonymous(Self, t, p))

Because ==
    \E u \in Ids, i \in Ids, h \in HowMany :
        Start(Call("because", <<u, i, h>>, <<>>), because(Self, u, i, h))

MostPopularItems ==
    \E kw \in KwargsSet :
        Start(Call("most_popular_items", <<>>, kw), most_popular_items(Self, kw))

Refresh == Start(Call("refresh", <<>>, <<>>), refresh(Self))

IsReady == Start(Call("is_ready", <<>>, <<>>), is_ready(Self))

GetAllUserIds == Start(Call("get_all_user_ids", <<>>, <<>>), get_all_user_ids(Self))

GetAllItemIds == Start(Call("get_all_item_ids", <<>>, <<>>), get_all_item_ids(Self))

\* The HTTP library's call returns with the server's response and the
\* operation runs to its end.
Receive ==
    /\ pc = "waiting"
    /\ \E r \in Responses(call.op) :
        /\ resp' = r
        /\ outcome' = finish(call.op, r)
    /\ pc' = "done"
    /\ UNCHANGED <<host, port, ctor, call, sent, memo>>

\* The caller takes what the operation returned or raised.
Return ==
    /\ pc = "done"
    /\ pc' = "idle"
    /\ memo' = IF IsProbe(call, resp)
               THEN [call |-> call, resp |-> resp, sent |-> sent, outcome |-> outcome]
               ELSE memo
    /\ call' = Nil
    /\ sent' = <<>>
    /\ resp' = Nil
    /\ outcome' = Nil
    /\ UNCHANGED <<host, port, ctor>>

Next ==
    \/ AddPreference
    \/ RemovePreference
    \/ SetUserTag
    \/ SetItemTag
    \/ Ingest
    \/ Recommend
    \/ RecommendToMany
    \/ RecommendToAnonymous
    \/ MostSimilarItems
    \/ SimilarityToItem
    \/ Estimate
    \/ EstimateForAnonymous
    \/ Because
    \/ MostPopularItems
    \/ Refresh
    \/ IsReady
    \/ GetAllUserIds
    \/ GetAllItemIds
    \/ Receive
    \/ Return

Spec == Init /\ [][Next]_vars

(***************************************************************************)
(* Properties.                                                             *)
(***************************************************************************)
IsPrefix(p, s) == Len(p) <= Len(s) /\ SubSeq(s, 1, Len(p)) = p

\* 'http://{host}:{port}/' of the host and port given at construction
Base == S_http \o ctor.host \o <<":">> \o IntToStr(ctor.port) \o <<"/">>

\* identifiers listed in order, separated by '/'
RECURSIVE Slashed(_)
Slashed(ids) ==
    IF ids = <<>> THEN <<>>
    ELSE IF Len(ids) = 1 THEN IntToStr(ids[1].val)
    ELSE IntToStr(ids[1].val) \o <<"/">> \o Slashed(Tail(ids))

\* the identifiers an argument names: x names <<x>>, a list names its items
Named(x) == IF x.kind = "list" THEN x.val ELSE <<x>>

\* C1: add_preference issues exactly one POST to pref/{userId}/{itemId}
\* whose body is the decimal string of strength, and which has no body when
\* strength is omitted.
C1_AddPreferenceBody ==
    (pc # "idle" /\ call.op = "add_preference") =>
        /\ Len(sent) = 1
        /\ sent[1].method = "POST"
        /\ sent[1].url = Base \o S_pref \o IntToStr(call.args[1].val) \o <<"/">>
                              \o IntToStr(call.args[2].val)
        /\ sent[1].body = IF call.args[3] = PyNone THEN PyNone
                          ELSE PyStr(FloatToStr(call.args[3].val))

QueryOps ==
    {"recommend", "recommend_to_many", "recommend_to_anonymous",
     "most_similar_items", "similarity_to_item", "estimate",
     "estimate_for_anonymous", "because", "most_popular_items",
     "get_all_user_ids", "get_all_item_ids"}

\* C2: when the server answers with a non-success status, every query
\* operation returns an empty or absent result and does not raise, and
\* is_ready returns false.
C2_FailureYieldsEmpty ==
    (pc = "done" /\ resp # Nil /\ ~Ok(resp)) =>
        /\ call.op \in QueryOps =>
              outcome \in {Returned(PyNone), Returned(PyList(<<>>))}
        /\ call.op = "is_ready" => outcome = Returned(PyBool(FALSE))

\* the fields of a row joined by ',' and the rows joined by a newline
RECURSIVE RowsBody(_)
RowsBody(rows) ==
    IF rows = <<>> THEN <<>>
    ELSE Join([i \in 1..Len(rows[1].val) |-> Str(rows[1].val[i])], <<",">>)
         \o (IF Len(rows) = 1 THEN <<>> ELSE <<"\n">> \o RowsBody(Tail(rows)))

\* the text of a request's body, empty when it has none
BodyText(req) == IF req.body = PyNone THEN <<>> ELSE req.body.val

\* C3: ingest issues a POST to ingest whose body is the rows in input order,
\* each row's fields joined by ',' and the rows joined by a newline.
C3_IngestBody ==
    (pc # "idle" /\ call.op = "ingest") =>
        /\ Len(sent) = 1
        /\ sent[1].method = "POST"
        /\ sent[1].url = Base \o S_ingest
        /\ BodyText(sent[1]) = RowsBody(call.args[1].val)

\* the values the query gives for key, in the order of the query
ValuesOf(query, key) ==
    LET at == SelectSeq([i \in 1..Len(query) |-> i], LAMBDA i : query[i][1] = key)
    IN  [j \in 1..Len(at) |-> query[at[j]][2]]

\* C4: recommend(userId, howMany=h, rescorerParams=[p1..pn]) issues a GET to
\* recommend/{userId} whose query holds howMany=h and exactly the n
\* rescorerParams entries p1..pn, in the given order.
C4_RecommendQuery ==
    (pc # "idle" /\ call.op = "recommend"
        /\ KwHas(call.kwargs, "how_many") /\ KwHas(call.kwargs, "rescorer_params")) =>
        /\ Len(sent) = 1
        /\ sent[1].method = "GET"
        /\ sent[1].url = Base \o S_recommend \o IntToStr(call.args[1].val)
        /\ ValuesOf(sent[1].query, "howMany")
              = <<IntToStr(KwGet(call.kwargs, "how_many").val)>>
        /\ ValuesOf(sent[1].query, "rescorerParams")
              = [i \in 1..Len(KwGet(call.kwargs, "rescorer_params").val) |->
                    KwGet(call.kwargs, "rescorer_params").val[i].val]

\* the floats of vals as the list estimate returns
FloatList(vals) == PyList([i \in 1..Len(vals) |-> PyFloat(vals[i])])

\* estimate was answered with a success whose body lists vals, one per
\* line, with or without a final newline
EstimateAnswered(vals) ==
    /\ pc = "done"
    /\ call.op = "estimate"
    /\ resp # Nil
    /\ Ok(resp)
    /\ resp.content \in {LinesBody(vals), LinesBody(vals) \o <<"\n">>}

\* C5 as stated: for every sequence of item IDs, when the server answers
\* estimate with a success whose body is k newline-separated numbers,
\* estimate returns exactly those k floats in the order of the lines.
C5_EstimateLinesAnyK ==
    \A vals \in SeqsUpTo(FloatVals, MaxLines) :
        EstimateAnswered(vals) => outcome = Returned(FloatList(vals))

\* C5 as amended: the same for a body of k >= 1 numbers (estimate is for
\* one or more items); an empty body makes estimate raise ValueError.
C5_EstimateLines ==
    /\ \A vals \in SeqsUpTo(FloatVals, MaxLines) :
          (vals # <<>> /\ EstimateAnswered(vals)) =>
              outcome = Returned(FloatList(vals))
    /\ EstimateAnswered(<<>>) => outcome = Raised("ValueError")

C5_Witness ==
    /\ EstimateAnswered(<<5, -3>>)
    /\ call.args[2] = PyList(<<PyInt(7), PyInt(42)>>)
    /\ outcome = Returned(PyList(<<PyFloat(5), PyFloat(-3)>>))

\* C6 as stated: every request, the HEAD request of is_ready included, is
\* addressed to http://{host}:{port}/{path} and carries the header
\* Accept: application/json.
C6_EveryRequestAcceptsJson ==
    \A i \in 1..Len(sent) :
        /\ IsPrefix(Base, sent[i].url)
        /\ <<"Accept", "application/json">> \in sent[i].headers

\* C6 as amended: every request is addressed to http://{host}:{port}/{path};
\* every request but the HEAD request of is_ready carries the header
\* Accept: application/json, and that of is_ready, addressed to .../ready,
\* carries no header of the client's.
C6_RequestsAddressedAndAcceptJson ==
    \A i \in 1..Len(sent) :
        /\ IsPrefix(Base, sent[i].url)
        /\ call.op # "is_ready" =>
              <<"Accept", "application/json">> \in sent[i].headers
        /\ call.op = "is_ready" =>
              /\ sent[i].method = "HEAD"
              /\ sent[i].url = Base \o S_ready
              /\ sent[i].headers = {}

C6_Witness ==
    /\ pc = "waiting"
    /\ call.op = "remove_preference"
    /\ Len(sent) = 1
    /\ sent[1].method = "DELETE"
    /\ sent[1].headers = {<<"Accept", "application/json">>}

\* a bare itemID as '{item}', a tuple as '{item}={strength}', joined by '/'
RECURSIVE AnonymousPath(_)
AnonymousPath(prefs) ==
    IF prefs = <<>> THEN <<>>
    ELSE (IF prefs[1].kind = "int" THEN IntToStr(prefs[1].val)
          ELSE IntToStr(prefs[1].val[1].val) \o <<"=">> \o Str(prefs[1].val[2]))
         \o (IF Len(prefs) = 1 THEN <<>> ELSE <<"/">> \o AnonymousPath(Tail(prefs)))

\* C7: for a list of anonymous preferences, each a bare itemID or a tuple
\* (itemID, strength), recommend_to_anonymous and estimate_for_anonymous
\* issue the GET, without raising, to the path that renders them in input
\* order joined by '/'.
C7_AnonymousPath ==
    /\ (pc # "idle" /\ call.op = "recommend_to_anonymous") =>
          /\ Len(sent) = 1
          /\ sent[1].method = "GET"
          /\ sent[1].url = Base \o S_recommendToAnonymous
                                \o AnonymousPath(call.args[1].val)
    /\ (pc # "idle" /\ call.op = "estimate_for_anonymous") =>
          /\ Len(sent) = 1
          /\ sent[1].method = "GET"
          /\ sent[1].url = Base \o S_estimateForAnonymous
                                \o IntToStr(call.args[1].val) \o <<"/">>
                                \o AnonymousPath(call.args[2].val)

IdOps == {"most_similar_items", "similarity_to_item", "estimate"}

\* the item_ids argument of an invocation of most_similar_items,
\* similarity_to_item or estimate, and the path before its identifiers
ItemIdsOf(c) == IF c.op = "most_similar_items" THEN c.args[1] ELSE c.args[2]

IdPathPrefix(c) ==
    IF c.op = "most_similar_items" THEN S_similarity
    ELSE (IF c.op = "estimate" THEN S_estimate ELSE S_similarityToItem)
         \o IntToStr(c.args[1].val) \o <<"/">>

\* two invocations that differ at most in giving x for [x]
SameButWrapping(c, d) ==
    /\ c.op = d.op
    /\ c.kwargs = d.kwargs
    /\ Named(ItemIdsOf(c)) = Named(ItemIdsOf(d))
    /\ c.op # "most_similar_items" => c.args[1] = d.args[1]

C9_ExactlyOneRequest ==
    /\ Len(sent) <= 1
    /\ pc = "done" => Len(sent) = 1

\* C10: after any sequence of operations and responses the client's host and
\* port are those given at construction, and an invocation issues the
\* request and returns the value that the same invocation, answered the
\* same, issued and returned before: nothing of earlier calls is kept.
C10_NoStateAcrossCalls ==
    /\ host = ctor.host
    /\ port = ctor.port
    /\ (pc # "idle" /\ memo # Nil /\ memo.call = call) =>
          /\ memo.sent = sent
          /\ (pc = "done" /\ memo.resp = resp) => memo.outcome = outcome

C10_Witness ==
    /\ pc = "done"
    /\ memo # Nil
    /\ memo.call = call
    /\ call.op = "recommend"
    /\ memo.resp = resp
    /\ ~Ok(resp)
    /\ memo.outcome = outcome

====
